---- MODULE Spec2Model ----
(***************************************************************************)
(* Model of the mangum command dispatcher (mangum_cli/commands.py).        *)
(*                                                                         *)
(* One run of a subcommand is one action.  The state is the working        *)
(* directory (mangum.yml, requirements.txt) together with what the last    *)
(* run did: what it echoed, which exception left the handler, how often    *)
(* the descriptor was read, which keyword arguments were handed to Config, *)
(* which lifecycle operations were invoked on it and which provider calls  *)
(* were made.                                                              *)
(*                                                                         *)
(* Text is a sequence of one-character strings.  Python values are records *)
(* [t, v] tagged with their type.  A YAML document is the sequence of its  *)
(* "key: scalar" lines; a scalar keeps its style (plain or quoted) and its *)
(* text, so that the implicit typing of plain scalars by the YAML resolver *)
(* is part of both the dump and the load.                                  *)
(***************************************************************************)
EXTENDS Integers, Sequences, FiniteSets, TLC

-----------------------------------------------------------------------------
(* Bounds of the model *)

\* stack names of the wide init specification: every text up to this length
MaxNameLen == 2

\* init runs per behaviour
MaxInits == 2

(* Program constants *)

\* len(name) <= 128
MaxStackNameLen == 128

\* "timeout": 300
Timeout == 300

-----------------------------------------------------------------------------
(* Characters and text *)

LowerLetters ==
    {"a","b","c","d","e","f","g","h","i","j","k","l","m",
     "n","o","p","q","r","s","t","u","v","w","x","y","z"}

UpperLetters ==
    {"A","B","C","D","E","F","G","H","I","J","K","L","M",
     "N","O","P","Q","R","S","T","U","V","W","X","Y","Z"}

DecimalDigits == <<"0","1","2","3","4","5","6","7","8","9">>

DigitChars == {DecimalDigits[i] : i \in 1..10}

Whitespace == {" ", "\t", "\n", "\r"}

\* the text made of n copies of the character c
Repeat(c, n) == [i \in 1..n |-> c]

RECURSIVE RepeatText(_, _)
\* the text made of n copies of the text s
RepeatText(s, n) == IF n = 0 THEN <<>> ELSE s \o RepeatText(s, n - 1)

\* every text over the characters cs of length at most n
TextsUpTo(cs, n) == UNION {[1..k -> cs] : k \in 0..n}

-----------------------------------------------------------------------------
(* Python values *)

None == [t |-> "none", v |-> <<>>]
Str(s) == [t |-> "str", v |-> s]
Bool(b) == [t |-> "bool", v |-> b]
PyInt(n) == [t |-> "int", v |-> n]
PyFloat(s) == [t |-> "float", v |-> s]

\* Python truthiness of an optional string argument: `not x`
Falsy(x) == x = None \/ x = Str(<<>>)

-----------------------------------------------------------------------------
(* YAML scalars: the resolver shared by yaml.dump and yaml.safe_load *)

NullWords == {<<>>, <<"~">>, <<"n","u","l","l">>, <<"N","u","l","l">>, <<"N","U","L","L">>}

TrueWords ==
    {<<"t","r","u","e">>, <<"T","r","u","e">>, <<"T","R","U","E">>,
     <<"y","e","s">>, <<"Y","e","s">>, <<"Y","E","S">>,
     <<"o","n">>, <<"O","n">>, <<"O","N">>}

FalseWords ==
    {<<"f","a","l","s","e">>, <<"F","a","l","s","e">>, <<"F","A","L","S","E">>,
     <<"n","o">>, <<"N","o">>, <<"N","O">>,
     <<"o","f","f">>, <<"O","f","f">>, <<"O","F","F">>}

\* the text without a leading sign
Unsigned(s) == IF Len(s) > 0 /\ s[1] \in {"-", "+"} THEN Tail(s) ELSE s

\* [-+]?[0-9][0-9_]*  (the decimal form of the int resolver; "0" alone or no
\* leading zero, a leading zero being the octal form, which is not modelled)
IsIntText(s) ==
    LET u == Unsigned(s) IN
    /\ Len(u) > 0
    /\ u[1] \in DigitChars
    /\ (u[1] = "0" => Len(u) = 1)
    /\ \A i \in 2..Len(u) : u[i] \in DigitChars \cup {"_"}

\* [-+]?[0-9][0-9_]*\.[0-9_]*  (the float resolver without exponent)
IsFloatText(s) ==
    LET u == Unsigned(s) IN
    \E d \in 2..Len(u) :
        /\ u[d] = "."
        /\ u[1] \in DigitChars
        /\ \A i \in 2..(d - 1) : u[i] \in DigitChars \cup {"_"}
        /\ \A i \in (d + 1)..Len(u) : u[i] \in DigitChars \cup {"_"}

\* the tag the resolver gives a plain scalar
Resolve(s) ==
    IF s \in NullWords THEN "null"
    ELSE IF s \in TrueWords \cup FalseWords THEN "bool"
    ELSE IF IsIntText(s) THEN "int"
    ELSE IF IsFloatText(s) THEN "float"
    ELSE "str"

DigitValue(c) == CHOOSE d \in 0..9 : DecimalDigits[d + 1] = c

RECURSIVE DigitsToNat(_, _)
\* the number the digits of s denote, underscores dropped, after acc
DigitsToNat(s, acc) ==
    IF s = <<>> THEN acc
    ELSE IF Head(s) = "_" THEN DigitsToNat(Tail(s), acc)
    ELSE DigitsToNat(Tail(s), 10 * acc + DigitValue(Head(s)))

\* construct_yaml_int on a decimal text
TextToInt(s) ==
    IF Len(s) > 0 /\ s[1] = "-" THEN 0 - DigitsToNat(Tail(s), 0)
    ELSE DigitsToNat(Unsigned(s), 0)

RECURSIVE NatToText(_)
NatToText(n) ==
    IF n < 10 THEN <<DecimalDigits[n + 1]>>
    ELSE NatToText(n \div 10) \o <<DecimalDigits[(n % 10) + 1]>>

\* str(int)
IntToText(n) == IF n < 0 THEN <<"-">> \o NatToText(0 - n) ELSE NatToText(n)

-----------------------------------------------------------------------------
(* yaml.dump(config, default_flow_style=False, sort_keys=False) *)

\* characters that may not start a plain scalar
LeadingIndicators ==
    {"#", ",", "[", "]", "{", "}", "&", "*", "!", "|", ">", "'", "%", "@"}

FollowedByWhitespace(s, i) == i = Len(s) \/ s[i + 1] \in Whitespace

\* the emitter's analysis of a scalar: may it be written in the plain style
AllowPlain(s) ==
    /\ Len(s) > 0
    /\ s[1] \notin LeadingIndicators
    /\ ~(s[1] \in {"-", "?", ":"} /\ FollowedByWhitespace(s, 1))
    /\ s[1] # " " /\ s[Len(s)] # " "
    /\ \A i \in 1..Len(s) :
        /\ s[i] \notin {"\n", "\r", "\t"}
        /\ ~(s[i] = ":" /\ FollowedByWhitespace(s, i))
        /\ ~(s[i] = "#" /\ i > 1 /\ s[i - 1] \in Whitespace)

\* a space directly before a line break rules out the single-quoted style
HasSpaceBreak(s) == \E i \in 1..(Len(s) - 1) : s[i] = " " /\ s[i + 1] \in {"\n", "\r"}

Scalar(style, text) == [style |-> style, text |-> text]

\* represent_str as always writing the text bare
RepresentStrBare(s) == Scalar("plain", s)

\* represent_str and the emitter's choice of style: plain only when the
\* resolver reads the bare text back as a string
RepresentStr(s) ==
    IF Resolve(s) = "str" /\ AllowPlain(s) THEN Scalar("plain", s)
    ELSE IF HasSpaceBreak(s) THEN Scalar("double", s)
    ELSE Scalar("single", s)

\* the scalar yaml.dump writes for a value
Represent(x) ==
    CASE x.t = "none" -> Scalar("plain", <<"n","u","l","l">>)
      [] x.t = "bool" -> Scalar("plain", IF x.v THEN <<"t","r","u","e">>
                                          ELSE <<"f","a","l","s","e">>)
      [] x.t = "int" -> Scalar("plain", IntToText(x.v))
      [] x.t = "str" -> RepresentStr(x.v)

\* one "key: scalar" line per item, in the order of keys
YamlDump(keys, dict) ==
    [i \in 1..Len(keys) |-> [key |-> keys[i], scalar |-> Represent(dict[keys[i]])]]

(* yaml.safe_load *)

\* the value constructed from a scalar
Construct(sc) ==
    IF sc.style # "plain" THEN Str(sc.text)
    ELSE LET tag == Resolve(sc.text) IN
         CASE tag = "null" -> None
           [] tag = "bool" -> Bool(sc.text \in TrueWords)
           [] tag = "int" -> PyInt(TextToInt(sc.text))
           [] tag = "float" -> PyFloat(sc.text)
           [] tag = "str" -> Str(sc.text)

\* the dict constructed from a block mapping (a later duplicate key wins)
ConstructMapping(doc) ==
    [k \in {doc[i].key : i \in 1..Len(doc)} |->
        LET last == CHOOSE i \in 1..Len(doc) :
                        /\ doc[i].key = k
                        /\ \A j \in (i + 1)..Len(doc) : doc[j].key # k
        IN Construct(doc[last].scalar)]

-----------------------------------------------------------------------------
(* Files of the working directory *)

\* content of mangum.yml by what the YAML parser makes of it: no file, a block
\* mapping (its lines in doc), an empty document, a scalar, a sequence, or
\* text the parser rejects
File(kind, doc) == [kind |-> kind, doc |-> doc]

Absent == File("absent", <<>>)

ForeignKinds == {"empty", "scalar", "list", "invalid"}

\* f.write("mangum\n")
MangumLine == <<"m","a","n","g","u","m","\n">>

-----------------------------------------------------------------------------
(* State *)

VARIABLES
    yml,        \* content of mangum.yml
    req,        \* text of requirements.txt (empty when there is no such file)
    last,       \* the last run: [cmd, in], its subcommand and inputs
    out,        \* what the last run echoed
    raised,     \* the exception that left the last run's handler, or "none"
    loads,      \* how often the last run opened and read mangum.yml
    cfg,        \* the keyword arguments the last run passed to Config
    calls,      \* the lifecycle operations the last run invoked on its Config,
                \* each with its result: it "returned" or it "raised"
    s3calls,    \* the provider's create_bucket calls of the last run
    nInit,      \* history: number of init runs so far
    initArgs,   \* history: arguments of the most recent init run
    yml0,       \* history: content of mangum.yml before the first run
    req0        \* history: text of requirements.txt before the first run

files == <<yml, req>>
run == <<last, out, raised, loads, cfg, calls, s3calls>>
history == <<nInit, initArgs, yml0, req0>>
vars == <<yml, req, last, out, raised, loads, cfg, calls, s3calls,
          nInit, initArgs, yml0, req0>>

NoArgs == [name |-> None]
NoKwargs == [none |-> TRUE]

Echo(msg, args) == [msg |-> msg, args |-> args]

Echoed(msg) == \E i \in 1..Len(out) : out[i].msg = msg

-----------------------------------------------------------------------------
(* get_config *)

\* yaml.safe_load(config_data): the YAMLError, or the data constructed
SafeLoad(file) ==
    CASE file.kind = "invalid" -> [err |-> TRUE, data |-> None]
      [] file.kind = "empty" -> [err |-> FALSE, data |-> None]
      [] file.kind = "scalar" -> [err |-> FALSE, data |-> Str(<<"x">>)]
      [] file.kind = "list" -> [err |-> FALSE, data |-> [t |-> "list", v |-> <<>>]]
      [] file.kind = "mapping" ->
            [err |-> FALSE, data |-> [t |-> "dict", v |-> ConstructMapping(file.doc)]]

Loaded(exc, n, kwargs) == [exc |-> exc, loads |-> n, kwargs |-> kwargs]

\* get_config answering a missing file with a configuration of defaults
GetConfigDefault(file) ==
    IF file.kind = "absent" THEN Loaded("none", 0, [name |-> Str(<<"a","p","p">>)])
    ELSE LET loaded == SafeLoad(file) IN
         IF loaded.err THEN Loaded("RuntimeError", 1, NoKwargs)
         ELSE IF loaded.data.t # "dict" THEN Loaded("TypeError", 1, NoKwargs)
         ELSE Loaded("none", 1, loaded.data.v)

\* get_config without the try/except around yaml.safe_load
GetConfigUnwrapped(file) ==
    IF file.kind = "absent" THEN Loaded("IOError", 0, NoKwargs)
    ELSE LET loaded == SafeLoad(file) IN
         IF loaded.err THEN Loaded("YAMLError", 1, NoKwargs)
         ELSE IF loaded.data.t # "dict" THEN Loaded("TypeError", 1, NoKwargs)
         ELSE Loaded("none", 1, loaded.data.v)

\* get_config: the exception it raises ("none": it returns), the number of
\* reads of the file, and the keyword arguments of Config(**config_data)
GetConfig(file) ==
    IF file.kind = "absent" THEN Loaded("IOError", 0, NoKwargs)
    ELSE LET loaded == SafeLoad(file) IN
         IF loaded.err THEN Loaded("RuntimeError", 1, NoKwargs)
         ELSE IF loaded.data.t # "dict" THEN Loaded("TypeError", 1, NoKwargs)
         ELSE Loaded("none", 1, loaded.data.v)

\* boto3.session.Session().region_name: the input is the session's region
get_default_region_name(session_region) == session_region

-----------------------------------------------------------------------------
(* init *)

AsciiLetters == LowerLetters \cup UpperLetters

\* [a-zA-Z-]
NameClass == AsciiLetters \cup {"-"}

RECURSIVE MatchClass(_, _)
\* greedy repetition of [a-zA-Z-] from position i: the position after it
MatchClass(s, i) ==
    IF i <= Len(s) /\ s[i] \in NameClass THEN MatchClass(s, i + 1) ELSE i

\* $ at position i: the end of the text, or just before a newline ending it
MatchEnd(s, i) == i = Len(s) + 1 \/ (i = Len(s) /\ s[i] = "\n")

\* the pattern with * in place of +
NameMatchStar(s) ==
    /\ Len(s) >= 1
    /\ s[1] \in AsciiLetters
    /\ MatchEnd(s, MatchClass(s, 2))

\* re.compile(r'^[a-zA-Z][a-zA-Z-]+$').match(name) is not None
NameMatch(s) ==
    /\ Len(s) >= 1
    /\ s[1] \in AsciiLetters
    /\ MatchClass(s, 2) > 2
    /\ MatchEnd(s, MatchClass(s, 2))

\* the condition of the if: the name is legal
StackNameOk(s) == NameMatch(s) /\ Len(s) <= MaxStackNameLen

WarningEcho ==
    <<Echo("*** WARNING ***", <<>>),
      Echo("Illegal stack name.", <<>>),
      Echo("A stack name can contain only alphanumeric characters (case-sensitive) and hyphens.", <<>>),
      Echo("It must start with an alphabetic character and can't be longer than 128 characters.", <<>>),
      Echo("(https://docs.aws.amazon.com/AWSCloudFormation/latest/UserGuide/cfn-using-console-create-stack-parameters.html)", <<>>),
      Echo("", <<>>)>>

\* the default of the runtime argument
DefaultRuntime == Str(<<"p","y","t","h","o","n","3",".","7">>)

\* click: an omitted runtime (None here) takes its default
RuntimeArg(runtime) == IF runtime = None THEN DefaultRuntime ELSE runtime

ConfigKeys ==
    <<"name", "code_dir", "handler", "bucket_name", "region_name", "runtime",
      "websockets", "timeout", "s3_access", "dynamodb_access">>

\* the config dict of init
InitConfig(name, bucket_name, region_name, runtime, s3_access, dynamodb_access) ==
    [name |-> name,
     code_dir |-> Str(<<"a","p","p">>),
     handler |-> Str(<<"a","s","g","i",".","h","a","n","d","l","e","r">>),
     bucket_name |-> bucket_name,
     region_name |-> region_name,
     runtime |-> runtime,
     websockets |-> Bool(FALSE),
     timeout |-> PyInt(Timeout),
     s3_access |-> Bool(s3_access),
     dynamodb_access |-> Bool(dynamodb_access)]

\* open(..., "w") and f.write(config_data): the file holds the dump alone
WriteYml(old, config) == File("mapping", YamlDump(ConfigKeys, config))

\* the append, skipped when the file already ends with the line
AppendRequirementOnce(text) ==
    IF Len(text) >= Len(MangumLine)
       /\ SubSeq(text, Len(text) - Len(MangumLine) + 1, Len(text)) = MangumLine
    THEN text
    ELSE text \o MangumLine

\* open(..., "a") and f.write("mangum\n")
AppendRequirement(text) == text \o MangumLine

\* one run of `mangum init`; runtime is None when the argument is omitted
init(name, bucket_name, region_name, runtime, s3_access, dynamodb_access) ==
    LET rt == RuntimeArg(runtime)
        config == InitConfig(name, bucket_name, region_name, rt,
                             s3_access, dynamodb_access)
    IN
    /\ nInit < MaxInits
    /\ out' = (IF StackNameOk(name.v) THEN <<>> ELSE WarningEcho)
              \o <<Echo("Generating initial configuration...", <<>>),
                   Echo("Configuration saved to: mangum.yml", <<>>)>>
    /\ yml' = WriteYml(yml, config)
    /\ req' = AppendRequirement(req)
    /\ last' = [cmd |-> "init", in |-> <<>>]
    /\ raised' = "none"
    /\ loads' = 0
    /\ cfg' = NoKwargs
    /\ calls' = <<>>
    /\ s3calls' = <<>>
    /\ nInit' = nInit + 1
    /\ initArgs' = [name |-> name, bucket_name |-> bucket_name,
                    region_name |-> region_name, runtime |-> rt,
                    s3_access |-> s3_access, dynamodb_access |-> dynamodb_access]
    /\ UNCHANGED <<yml0, req0>>

-----------------------------------------------------------------------------
(* The lifecycle subcommands *)

\* config.<op>(**kwargs); kwargs as a set of <<name, value>> pairs
OpCall(op, kwargs) == [op |-> op, kwargs |-> kwargs]

BuildBody(no_pip) == <<OpCall("build", {<<"no_pip", no_pip>>})>>

PackageBody == <<OpCall("package", {})>>

\* deploy without the describe that follows it
DeployBodyAlone == <<OpCall("deploy", {})>>

DeployBody == <<OpCall("deploy", {}), OpCall("describe", {})>>

AllBody(no_pip) ==
    <<OpCall("build", {<<"no_pip", no_pip>>}), OpCall("package", {}),
      OpCall("deploy", {}), OpCall("describe", {})>>

ValidateBody == <<OpCall("validate", {})>>

DeleteBody == <<OpCall("delete", {})>>

DescribeBody == <<OpCall("describe", {})>>

\* the handler of a lifecycle subcommand: config = get_config(), then the
\* calls of body in order.  fail is what the collaborator does: 0 when every
\* operation returns, k when the k-th raises (the exception leaves the
\* handler, so the calls after it are never made)
Lifecycle(cmd, in, body, fail) ==
    LET c == GetConfig(yml)
        made == IF fail = 0 THEN Len(body) ELSE fail
    IN
    /\ last' = [cmd |-> cmd, in |-> in]
    /\ out' = <<>>
    /\ s3calls' = <<>>
    /\ loads' = c.loads
    /\ cfg' = c.kwargs
    /\ IF c.exc # "none"
       THEN calls' = <<>> /\ raised' = c.exc
       ELSE /\ calls' = [i \in 1..made |->
                            [op |-> body[i].op, kwargs |-> body[i].kwargs,
                             result |-> IF i = fail THEN "raised" ELSE "returned"]]
            /\ raised' = IF fail = 0 THEN "none" ELSE "OpError"
    /\ UNCHANGED <<files, history>>

FailPoints(body) == 0..Len(body)

build == \E no_pip \in BOOLEAN : \E fail \in FailPoints(BuildBody(no_pip)) :
    Lifecycle("build", no_pip, BuildBody(no_pip), fail)

package == \E fail \in FailPoints(PackageBody) :
    Lifecycle("package", FALSE, PackageBody, fail)

deploy == \E fail \in FailPoints(DeployBody) :
    Lifecycle("deploy", FALSE, DeployBody, fail)

all == \E no_pip \in BOOLEAN : \E fail \in FailPoints(AllBody(no_pip)) :
    Lifecycle("all", no_pip, AllBody(no_pip), fail)

validate == \E fail \in FailPoints(ValidateBody) :
    Lifecycle("validate", FALSE, ValidateBody, fail)

delete == \E fail \in FailPoints(DeleteBody) :
    Lifecycle("delete", FALSE, DeleteBody, fail)

describe == \E fail \in FailPoints(DescribeBody) :
    Lifecycle("describe", FALSE, DescribeBody, fail)

LifecycleCmds == {"build", "package", "deploy", "all", "validate", "delete", "describe"}

-----------------------------------------------------------------------------
(* create_bucket *)

MangumPrefix == <<"m","a","n","g","u","m","-">>

\* the condition `if not bucket_name` inverted
BucketNameInverted(bucket_name, uuid) ==
    IF ~Falsy(bucket_name) THEN Str(MangumPrefix \o uuid) ELSE bucket_name

\* the bucket name after `if not bucket_name: bucket_name = f"mangum-{uuid.uuid4()}"`
BucketName(bucket_name, uuid) ==
    IF Falsy(bucket_name) THEN Str(MangumPrefix \o uuid) ELSE bucket_name

\* the region after `if not region_name: region_name = get_default_region_name()`
RegionName(region_name, session_region) ==
    IF Falsy(region_name) THEN get_default_region_name(session_region)
    ELSE region_name

\* the echo of the result printed whether or not the call failed
ResultEchoAlways(outcome, bucket, region) ==
    (IF outcome = "ClientError" THEN <<Echo("ClientError", <<>>)>> ELSE <<>>)
    \o <<Echo("Bucket name / Region name", <<bucket, region>>)>>

\* try / except ClientError / else: what is echoed after the provider call
ResultEcho(outcome, bucket, region) ==
    CASE outcome = "ClientError" -> <<Echo("ClientError", <<>>)>>
      [] outcome = "ok" -> <<Echo("Bucket name / Region name", <<bucket, region>>)>>
      [] OTHER -> <<>>

\* create_bucket recording the bucket it created in the descriptor
SaveBucketToDescriptor ==
    /\ yml' = IF yml.kind = "mapping" /\ Len(s3calls') > 0
              THEN File("mapping",
                        [i \in 1..Len(yml.doc) |->
                            IF yml.doc[i].key = "bucket_name"
                            THEN [key |-> "bucket_name",
                                  scalar |-> Represent(s3calls'[1].Bucket)]
                            ELSE yml.doc[i]])
              ELSE yml
    /\ req' = req

\* create_bucket opens no file of the working directory
CreateBucketFiles == UNCHANGED files

\* one run of `mangum create-bucket`.  uuid is the text of uuid.uuid4(),
\* session_region the region of the boto3 session, outcome what the provider's
\* create_bucket does: it returns ("ok"), raises ClientError, or raises
\* another exception ("OtherError": parameter validation, no credentials)
create_bucket(bucket_name, region_name, uuid, session_region, outcome) ==
    LET bucket == BucketName(bucket_name, uuid)
        region == RegionName(region_name, session_region)
    IN
    \* a LocationConstraint of None does not pass parameter validation
    /\ region = None => outcome = "OtherError"
    /\ last' = [cmd |-> "create_bucket",
                in |-> [bucket_name |-> bucket_name, region_name |-> region_name,
                        uuid |-> uuid, session_region |-> session_region,
                        outcome |-> outcome]]
    /\ s3calls' = <<[Bucket |-> bucket, Region |-> region]>>
    /\ out' = (IF Falsy(bucket_name)
               THEN <<Echo("No bucket name provided, one will be generated.", <<>>)>>
               ELSE <<>>)
              \o (IF Falsy(region_name)
                  THEN <<Echo("No region specified, using default.", <<>>)>>
                  ELSE <<>>)
              \o ResultEcho(outcome, bucket, region)
    /\ raised' = IF outcome = "OtherError" THEN "OtherError" ELSE "none"
    /\ loads' = 0
    /\ cfg' = NoKwargs
    /\ calls' = <<>>
    /\ CreateBucketFiles
    /\ UNCHANGED history

-----------------------------------------------------------------------------
(* Inputs *)

T_ab == <<"a","b">>
T_bucket == <<"b","-","1">>
T_region == <<"e","u">>

\* texts of uuid.uuid4()
Uuids == {<<"0","1">>, <<"f","e">>}

BucketArgs == {None, Str(<<>>), Str(T_bucket)}
RegionArgs == {None, Str(<<>>), Str(T_region)}
SessionRegions == {None, Str(<<"u","s">>)}
Outcomes == {"ok", "ClientError", "OtherError"}

\* what a directory may hold before the first run
YmlBefore == {Absent} \cup {File(k, <<>>) : k \in ForeignKinds}
ReqBefore == {<<>>, <<"f">>}

\* the characters stack names are drawn from: a letter, a digit, the hyphen,
\* a character outside the pattern's classes, and the newline
NameChars == {"a", "1", "-", "_", "\n"}

\* stack names: every short text, and names around the length limit
StackNames ==
    TextsUpTo(NameChars, MaxNameLen)
    \cup {<<"Z","b">>, <<"a","-","Z">>, <<"a","b","\n">>, <<"a","b","\n","\n">>}
    \cup {Repeat("a", n) : n \in (MaxStackNameLen - 1)..(MaxStackNameLen + 1)}
    \cup {Repeat("a", MaxStackNameLen - 1) \o <<"\n">>, Repeat("a", MaxStackNameLen) \o <<"\n">>}

\* texts the YAML resolver or emitter treats specially, and one it does not
YamlTexts ==
    {<<>>, <<"~">>, <<"n","u","l","l">>, <<"t","r","u","e">>, <<"N","o">>,
     <<"3","0","0">>, <<"-","1","_">>, <<"3",".","7">>, <<"a",":"," ","b">>,
     <<" ","a">>, <<"-">>, <<"#","a">>, <<"a"," ","\n","b">>,
     <<"p","y","t","h","o","n","3",".","8">>}

InitArgs(name, bucket_name, region_name, runtime, s3_access, dynamodb_access) ==
    [name |-> name, bucket_name |-> bucket_name, region_name |-> region_name,
     runtime |-> runtime, s3_access |-> s3_access,
     dynamodb_access |-> dynamodb_access]

\* command lines of init, one argument varied at a time
WideInitArgs ==
    {InitArgs(Str(n), None, None, None, TRUE, TRUE) : n \in StackNames \cup YamlTexts}
    \cup {InitArgs(Str(T_ab), Str(b), None, None, TRUE, FALSE) : b \in YamlTexts}
    \cup {InitArgs(Str(T_ab), None, Str(r), None, FALSE, TRUE) : r \in YamlTexts}
    \cup {InitArgs(Str(T_ab), Str(T_bucket), Str(T_region), Str(r), FALSE, FALSE) :
            r \in YamlTexts}

-----------------------------------------------------------------------------
(* The command line: any subcommand, any number of times *)

Fresh ==
    /\ yml0 = yml
    /\ req0 = req
    /\ last = [cmd |-> "none", in |-> <<>>]
    /\ out = <<>>
    /\ raised = "none"
    /\ loads = 0
    /\ cfg = NoKwargs
    /\ calls = <<>>
    /\ s3calls = <<>>
    /\ nInit = 0
    /\ initArgs = NoArgs

\* a directory holding anything
Start == yml \in YmlBefore /\ req \in ReqBefore /\ Fresh

\* an empty directory
StartEmpty == yml = Absent /\ req = <<>> /\ Fresh

run_init ==
    \E bucket_name \in {None, Str(T_bucket)}, s3_access \in BOOLEAN :
        init(Str(T_ab), bucket_name, None, None, s3_access, TRUE)

run_init_wide ==
    \E a \in WideInitArgs :
        init(a.name, a.bucket_name, a.region_name, a.runtime,
             a.s3_access, a.dynamodb_access)

run_create_bucket ==
    \E bucket_name \in {None, Str(T_bucket)}, outcome \in Outcomes :
        create_bucket(bucket_name, Str(T_region), <<"0","1">>, None, outcome)

run_create_bucket_wide ==
    \E bucket_name \in BucketArgs, region_name \in RegionArgs, uuid \in Uuids,
       session_region \in SessionRegions, outcome \in Outcomes :
        create_bucket(bucket_name, region_name, uuid, session_region, outcome)

\* every subcommand, in a directory holding anything
Next ==
    \/ run_init
    \/ build
    \/ run_create_bucket
    \/ package
    \/ deploy
    \/ all
    \/ validate
    \/ delete
    \/ describe

Spec == Start /\ [][Next]_vars

\* init with any arguments, and a command reading the descriptor back
NextInit == run_init_wide \/ describe

SpecInit == StartEmpty /\ [][NextInit]_vars

\* create-bucket with any arguments, between runs of init and describe
NextBucket == run_create_bucket_wide \/ run_init \/ describe

SpecBucket == StartEmpty /\ [][NextBucket]_vars

-----------------------------------------------------------------------------
(* Properties *)

\* the last run was a lifecycle subcommand
RanLifecycle == last.cmd \in LifecycleCmds

\* the keyword arguments Config gets from the descriptor init wrote for args
ExpectedConfig(args) ==
    [name |-> args.name,
     code_dir |-> Str(<<"a","p","p">>),
     handler |-> Str(<<"a","s","g","i",".","h","a","n","d","l","e","r">>),
     bucket_name |-> args.bucket_name,
     region_name |-> args.region_name,
     runtime |-> args.runtime,
     websockets |-> Bool(FALSE),
     timeout |-> PyInt(300),
     s3_access |-> Bool(args.s3_access),
     dynamodb_access |-> Bool(args.dynamodb_access)]

\* C1: a lifecycle subcommand run while mangum.yml does not exist ends with
\* the I/O error of get_config, and has invoked no lifecycle operation and
\* made no provider call.
C1_MissingDescriptorFailsFirst ==
    (RanLifecycle /\ yml.kind = "absent") =>
        /\ raised = "IOError"
        /\ calls = <<>>
        /\ s3calls = <<>>
        /\ cfg = NoKwargs

C1_Witness ==
    /\ last.cmd = "all"
    /\ yml.kind = "absent"
    /\ raised = "IOError"
    /\ calls = <<>>

\* C2: after init, a subcommand that loads the descriptor passes to Config
\* exactly the values given to init, with code_dir, handler, websockets and
\* timeout at their fixed values, and no other key.
C2_InitGetConfigRoundTrip ==
    (RanLifecycle /\ nInit > 0) =>
        /\ raised \in {"none", "OpError"}
        /\ cfg = ExpectedConfig(initArgs)

C2_Witness ==
    /\ last.cmd = "describe"
    /\ nInit > 0
    /\ initArgs.bucket_name = Str(<<"n","u","l","l">>)
    /\ cfg = ExpectedConfig(initArgs)
    /\ cfg.region_name = None

\* the stack name the last run of init was given
InitName == initArgs.name.v

\* the texts the pattern ^[a-zA-Z][a-zA-Z-]+$ matches: a letter, then one or
\* more letters or hyphens, then the end or one final newline
InPatternLanguage(s) ==
    \E n \in {Len(s) - 1, Len(s)} :
        /\ n >= 2
        /\ n = Len(s) \/ s[Len(s)] = "\n"
        /\ s[1] \in AsciiLetters
        /\ \A i \in 2..n : s[i] \in AsciiLetters \cup {"-"}

\* the descriptor holds the line of the stack name
DescriptorNames(name) ==
    /\ yml.kind = "mapping"
    /\ \E i \in 1..Len(yml.doc) :
        /\ yml.doc[i].key = "name"
        /\ yml.doc[i].scalar.text = name

\* C3: init warns of an illegal stack name exactly when the name fails the
\* pattern or is longer than 128 characters, and writes the descriptor with
\* that name in either case, without raising.
C3_IllegalNameWarnsAndWrites ==
    last.cmd = "init" =>
        /\ Echoed("Illegal stack name.")
            <=> ~(InPatternLanguage(InitName) /\ Len(InitName) <= 128)
        /\ DescriptorNames(InitName)
        /\ raised = "none"

C3_Witness ==
    /\ last.cmd = "init"
    /\ InitName = Repeat("a", 129)
    /\ Echoed("Illegal stack name.")
    /\ DescriptorNames(InitName)

\* the rule the warning states: only alphanumeric characters and hyphens, an
\* alphabetic first character, at most 128 characters
StatedRule(s) ==
    /\ Len(s) >= 1
    /\ Len(s) <= 128
    /\ s[1] \in AsciiLetters
    /\ \A i \in 1..Len(s) : s[i] \in AsciiLetters \cup DigitChars \cup {"-"}

\* C4: init accepts a stack name without warning exactly when the name
\* satisfies the stated rule.
C4_CheckIsStatedRule ==
    last.cmd = "init" => (~Echoed("Illegal stack name.") <=> StatedRule(InitName))

\* the operations a subcommand invokes, each with its keyword arguments
ExpectedCalls(cmd, no_pip) ==
    CASE cmd = "build" -> <<OpCall("build", {<<"no_pip", no_pip>>})>>
      [] cmd = "package" -> <<OpCall("package", {})>>
      [] cmd = "deploy" -> <<OpCall("deploy", {}), OpCall("describe", {})>>
      [] cmd = "all" -> <<OpCall("build", {<<"no_pip", no_pip>>}), OpCall("package", {}),
                          OpCall("deploy", {}), OpCall("describe", {})>>
      [] cmd = "validate" -> <<OpCall("validate", {})>>
      [] cmd = "delete" -> <<OpCall("delete", {})>>
      [] cmd = "describe" -> <<OpCall("describe", {})>>

\* C5: with a descriptor written by init in place, a lifecycle subcommand
\* reads the descriptor once and invokes on the configuration built from it a
\* prefix of its own sequence of operations, in order, with the flag it was
\* given; every operation before the last invoked one returned; the sequence
\* is complete when nothing raised, and ends with the operation that raised
\* otherwise.
C5_SubcommandInvokesItsSequence ==
    (RanLifecycle /\ nInit > 0) =>
        LET expected == ExpectedCalls(last.cmd, last.in) IN
        /\ loads = 1
        /\ cfg = ConstructMapping(yml.doc)
        /\ Len(calls) \in 1..Len(expected)
        /\ \A i \in 1..Len(calls) :
            /\ calls[i].op = expected[i].op
            /\ calls[i].kwargs = expected[i].kwargs
            /\ i < Len(calls) => calls[i].result = "returned"
        /\ raised = "none" =>
            Len(calls) = Len(expected) /\ calls[Len(calls)].result = "returned"
        /\ raised # "none" =>
            raised = "OpError" /\ calls[Len(calls)].result = "raised"

C5_Witness ==
    /\ last.cmd = "deploy"
    /\ nInit > 0
    /\ raised = "none"
    /\ Len(calls) = 2
    /\ calls[2].op = "describe"

\* the last run was create-bucket
RanCreateBucket == last.cmd = "create_bucket"

SuccessEcho == "Bucket name / Region name"

\* C6: create-bucket calls the provider's create_bucket exactly once.  When
\* the call raises ClientError the error is echoed, the success message is
\* not, and nothing is raised; when the call returns, the success message
\* carries the bucket name and the region of the call.
C6_ClientErrorCaughtNotRetried ==
    RanCreateBucket =>
        /\ Len(s3calls) = 1
        /\ last.in.outcome = "ClientError" =>
            /\ Echoed("ClientError")
            /\ ~Echoed(SuccessEcho)
            /\ raised = "none"
        /\ last.in.outcome = "ok" =>
            /\ out[Len(out)] = Echo(SuccessEcho, <<s3calls[1].Bucket, s3calls[1].Region>>)
            /\ ~Echoed("ClientError")
            /\ raised = "none"

C6_Witness ==
    /\ RanCreateBucket
    /\ last.in.outcome = "ClientError"
    /\ Echoed("ClientError")
    /\ ~Echoed(SuccessEcho)
    /\ Len(s3calls) = 1

\* C7: create-bucket without a bucket name calls the provider with the name
\* mangum-<uuid>; with a non-empty bucket name it calls the provider with
\* that name and generates none.  The region of the call is the one given,
\* and the default region of the session when none is given.
C7_BucketNameGeneratedWhenMissing ==
    RanCreateBucket =>
        LET in == last.in
            call == s3calls[1]
        IN
        /\ in.bucket_name = None =>
            /\ call.Bucket = Str(<<"m","a","n","g","u","m","-">> \o in.uuid)
            /\ Echoed("No bucket name provided, one will be generated.")
        /\ (in.bucket_name # None /\ in.bucket_name.v # <<>>) =>
            /\ call.Bucket = in.bucket_name
            /\ ~Echoed("No bucket name provided, one will be generated.")
        /\ in.region_name = None => call.Region = in.session_region
        /\ (in.region_name # None /\ in.region_name.v # <<>>) =>
            call.Region = in.region_name

C7_Witness ==
    /\ RanCreateBucket
    /\ last.in.bucket_name = None
    /\ last.in.outcome = "ok"
    /\ s3calls[1].Bucket = Str(<<"m","a","n","g","u","m","-","f","e">>)
    /\ s3calls[1].Region = last.in.session_region

\* C8: a lifecycle subcommand run on a mangum.yml that is not a mapping of
\* settings ends in get_config and invokes no lifecycle operation: with the
\* RuntimeError wrapping the YAML error when the text is not YAML, and with
\* the TypeError of Config(**config_data) when the text is YAML for something
\* other than a mapping (an empty file, a scalar, a list).
C8_MalformedDescriptorFailsFirst ==
    (RanLifecycle /\ yml.kind \in ForeignKinds) =>
        /\ calls = <<>>
        /\ s3calls = <<>>
        /\ raised = IF yml.kind = "invalid" THEN "RuntimeError" ELSE "TypeError"

C8_Witness ==
    /\ last.cmd = "deploy"
    /\ yml.kind = "empty"
    /\ raised = "TypeError"
    /\ loads = 1
    /\ calls = <<>>

\* C8 as claimed: every content that is not a valid mapping of settings makes
\* the subcommand fail with the wrapped RuntimeError.
C8_AlwaysWrappedError ==
    (RanLifecycle /\ yml.kind \in ForeignKinds) =>
        /\ calls = <<>>
        /\ raised = "RuntimeError"

\* C9: after n runs of init, requirements.txt is its original text followed
\* by n lines "mangum", and a run of init leaves in mangum.yml the ten lines
\* of its own descriptor and nothing else.
C9_InitOverwritesAndAppends ==
    /\ req = req0 \o RepeatText(<<"m","a","n","g","u","m","\n">>, nInit)
    /\ last.cmd = "init" =>
        /\ yml.kind = "mapping"
        /\ Len(yml.doc) = 10
        /\ ConstructMapping(yml.doc) = ExpectedConfig(initArgs)

C9_Witness ==
    /\ last.cmd = "init"
    /\ nInit = 2
    /\ req0 = <<"f">>
    /\ req = <<"f","m","a","n","g","u","m","\n","m","a","n","g","u","m","\n">>
    /\ yml0.kind = "list"
    /\ Len(yml.doc) = 10

\* C10: mangum.yml is what the most recent init wrote, and what the directory
\* held at the start when init never ran; create-bucket does not read the
\* descriptor, and a bucket_name of null in it is still null afterwards.
C10_OnlyInitWritesDescriptor ==
    /\ nInit = 0 => yml = yml0
    /\ nInit > 0 =>
        /\ yml.kind = "mapping"
        /\ Len(yml.doc) = 10
        /\ ConstructMapping(yml.doc) = ExpectedConfig(initArgs)
    /\ req = req0 \o RepeatText(MangumLine, nInit)
    /\ RanCreateBucket => loads = 0 /\ cfg = NoKwargs

C10_Witness ==
    /\ RanCreateBucket
    /\ last.in.outcome = "ok"
    /\ last.in.bucket_name = None
    /\ nInit > 0
    /\ initArgs.bucket_name = None
    /\ ConstructMapping(yml.doc).bucket_name = None

====
